---- MODULE Spec2Model ----
(***************************************************************************)
(* Model of parse.py: the README parse loop, the Project worker threads,   *)
(* get_last_commit's retry loop and the batch loop that ends in the CSV.   *)
(*                                                                         *)
(* A URL is a sequence of tokens (a literal prefix, a run of word          *)
(* characters, "/", a dotted name); a string the code builds is a TLA+     *)
(* string; '' is the empty sequence for a repo and "" for a date.          *)
(* Durations passed to time.sleep are logged in milliseconds.              *)
(***************************************************************************)
EXTENDS Integers, Sequences, FiniteSets, TLC

\* ---------------------------------------------------------------- bounds
MaxLines == 3        \* lines of a README in the pipeline specification
MaxLevel == 3        \* deepest heading ("###")
MaxWave  == 11       \* list items of a README in the wave specification
MaxFetch == 1        \* list items of a README in the fetch specification

\* ------------------------------------------------------ program constants
batch_size  == 10
max_retries == 3
base_delay  == 1

VARIABLES
  README,           \* the file: a sequence of lines
  api,              \* what the GitHub API may answer during this run
  pos,              \* lines of README read so far
  m_titles,         \* the heading stack
  last_head_level,
  projects,         \* the Project objects, in creation order (_match, _section)
  thread,           \* per project: "initial", "started", "fetch", "done", "died"
  attempt,          \* per project: get_last_commit's loop variable
  regs,             \* per project: None or the dict run() assigns
  log,              \* per project: API calls and sleeps the worker has made
  pc,               \* main thread: "parse", "launch", "wait", "pause", "output", "done", "crashed"
  i,                \* batch loop: offset of the current batch
  k,                \* batch loop: projects of the batch on which start() was called
  pauses,           \* inter-batch sleeps the main thread has made
  csv               \* rows written to site/projects.csv, one element per write

vars == <<README, api, pos, m_titles, last_head_level, projects, thread, attempt,
          regs, log, pc, i, k, pauses, csv>>

Max(a, b) == IF a >= b THEN a ELSE b
Min(a, b) == IF a <= b THEN a ELSE b

\* -------------------------------------------------------------------- URLs
GithubPrefix == "https://github.com/"
CranPrefix   == "https://cran.r-project.org/"
CranHost     == "cran.r-project.org"

\* tokens made of [\w-] only
WordTokens == {"acme", "widget", "tree"}
\* tokens made of [-\w.] only
RepoTokens == WordTokens \cup {CranHost, ".git"}

HasGithub(tok) == tok \in {GithubPrefix, "http://github.com/"}
HasCran(tok)   == tok \in {CranPrefix, CranHost}

\* 'github.com' in url, 'cran.r-project.org' in url
ContainsGithub(url) == \E j \in 1..Len(url) : HasGithub(url[j])
ContainsCran(url)   == \E j \in 1..Len(url) : HasCran(url[j])

\* re.match(r'^https://github.com/([\w-]+/[-\w\.]+)$', url)
StrictMatch(url) ==
  /\ Len(url) >= 4
  /\ url[1] = GithubPrefix
  /\ \E s \in 3..(Len(url) - 1) :
       /\ url[s] = "/"
       /\ \A j \in 2..(s - 1) : url[j] \in WordTokens
       /\ \A j \in (s + 1)..Len(url) : url[j] \in RepoTokens

\* mutant: a trailing ".git" is cut from the repo name
extract_repo_Trimmed(url) ==
  IF StrictMatch(url)
    THEN IF url[Len(url)] = ".git" /\ Len(url) > 4
           THEN SubSeq(url, 2, Len(url) - 1)
           ELSE SubSeq(url, 2, Len(url))
    ELSE <<>>

extract_repo(url) ==
  IF StrictMatch(url) THEN SubSeq(url, 2, Len(url)) ELSE <<>>

get_cran_publication_date(package_url) ==
  IF ContainsCran(package_url) THEN "1999-01-01" ELSE ""

UrlGit       == <<GithubPrefix, "acme", "/", "widget">>
UrlGitCran   == <<GithubPrefix, "acme", "/", CranHost>>
UrlGitTree   == <<GithubPrefix, "acme", "/", "widget", "/", "tree">>
UrlCran      == <<CranPrefix, "package=x">>
UrlCranGit   == <<GithubPrefix, "acme", "/", "widget", "/", CranHost>>
UrlOther     == <<"ftp://x">>

UrlGitDotGit == <<GithubPrefix, "acme", "/", "widget", ".git">>
UrlHttpGit   == <<"http://github.com/", "acme", "/", "widget">>
UrlNoRepo    == <<GithubPrefix, "acme">>

AllUrls == {UrlGit, UrlGitCran, UrlGitTree, UrlCran, UrlCranGit, UrlOther}

\* ------------------------------------------------------------- README lines
\* rex matches an item line "- [text](url) - description", ret a heading line
\* "#..# text"; any other line matches neither.
HeadingLine(n, t) ==
  [kind |-> "heading", level |-> n, text |-> t, url |-> <<>>, description |-> ""]
ItemLine(name, url, desc) ==
  [kind |-> "item", level |-> 0, text |-> name, url |-> url, description |-> desc]
TextLine ==
  [kind |-> "text", level |-> 0, text |-> "", url |-> <<>>, description |-> ""]

HeadingShapes == {HeadingLine(n, "") : n \in 1..MaxLevel}
ItemShapes(urls) == {ItemLine("", u, "") : u \in urls}

\* the line at position j gets its own heading text, project name and description
Decorate(shape, j) ==
  IF shape.kind = "heading" THEN HeadingLine(shape.level, "H" \o ToString(j))
  ELSE IF shape.kind = "item"
    THEN ItemLine("P" \o ToString(j), shape.url, "D" \o ToString(j))
  ELSE shape

Docs(shapes, lens) ==
  UNION { { [j \in 1..n |-> Decorate(s[j], j)] : s \in [1..n -> shapes] } : n \in lens }

\* -------------------------------------------------------------- GitHub API
NoDate == [year |-> 0, month |-> 0, day |-> 0]
Ok(d)          == [exc |-> "none", status |-> 200, date |-> d]
RateLimited    == [exc |-> "RateLimitExceededException", status |-> 403, date |-> NoDate]
GithubError(s) == [exc |-> "GithubException", status |-> s, date |-> NoDate]
OtherError     == [exc |-> "Exception", status |-> 0, date |-> NoDate]
NoResponse     == [exc |-> "", status |-> 0, date |-> NoDate]
NotFound  == GithubError(404)
Forbidden == GithubError(403)

\* g.get_rate_limit() followed by reset_time - time.time(): the query raises, or
\* the reset is delta seconds away
ResetIn(delta) == [raises |-> FALSE, delta |-> delta]
ResetRaises    == [raises |-> TRUE, delta |-> 0]

Date1 == [year |-> 2024, month |-> 3, day |-> 1]
Date2 == [year |-> 2023, month |-> 11, day |-> 30]

Pad2(n) == IF n < 10 THEN "0" \o ToString(n) ELSE ToString(n)
\* date.strftime('%Y-%m-%d')
strftime(d) == ToString(d.year) \o "-" \o Pad2(d.month) \o "-" \o Pad2(d.day)

FullApi ==
  [responses |-> {Ok(Date1), Ok(Date2), RateLimited, NotFound, Forbidden,
                  GithubError(500), OtherError},
   resets    |-> {ResetRaises, ResetIn(30), ResetIn(100)}]
PipelineApi ==
  [responses |-> {Ok(Date1), RateLimited, NotFound},
   resets    |-> {ResetRaises, ResetIn(30)}]
HealthyApi ==
  [responses |-> {Ok(Date1)}, resets |-> {ResetIn(30)}]
\* seconds from now to the limiter's reset, around the 60 s floor
ResetDeltas == {-5, 30, 50, 55, 100}
ResetApi ==
  [responses |-> {Ok(Date1), RateLimited},
   resets    |-> {ResetIn(d) : d \in ResetDeltas}]
\* the variable api holds the name of the behaviour
Api(name) ==
  IF name = "full" THEN FullApi
  ELSE IF name = "reset" THEN ResetApi
  ELSE IF name = "pipeline" THEN PipelineApi
  ELSE HealthyApi

\* ------------------------------------------------------------ worker's log
Seconds(s) == s * 1000
CallEvent(resp)  == [op |-> "get_repo", resp |-> resp, rl |-> ResetIn(0), ms |-> 0]
QueryEvent(rl)   == [op |-> "get_rate_limit", resp |-> NoResponse, rl |-> rl, ms |-> 0]
SleepEvent(ms)   == [op |-> "sleep", resp |-> NoResponse, rl |-> ResetIn(0), ms |-> ms]

\* ------------------------------------------------------- get_last_commit
\* mutant: the delay grows by base_delay instead of doubling
BackoffDelay_Linear(att) == base_delay * (att + 1)

\* delay = base_delay * (2 ** attempt)
BackoffDelay(att) == base_delay * (2 ^ att)

\* mutant: the 10 s buffer is added after the 60 s floor
RateLimitSleep_BufferAfterFloor(delta) == Max(delta, 60) + 10

\* sleep_time = (reset_time - time.time()) + 10; time.sleep(max(sleep_time, 60))
RateLimitSleep(delta) == Max(delta + 10, 60)

\* mutant: the guard for an empty repo is missing
SkipsLookup_Never(repo) == FALSE

\* if not repo: return ''
SkipsLookup(repo) == repo = <<>>

\* mutant: a rate-limit response is retried without the loop counting it
LoopContinues_Always(att) == TRUE

\* mutant: NotFound is handled like Forbidden (backoff and retry)
LoopBody_RetryNotFound(att, resp, rl) ==
  IF resp.exc = "none"
    THEN [kind |-> "return", value |-> strftime(resp.date),
          events |-> <<CallEvent(resp)>>]
  ELSE IF resp.exc = "RateLimitExceededException"
    THEN IF rl.raises
           THEN [kind |-> "raise", value |-> "",
                 events |-> <<CallEvent(resp), QueryEvent(rl)>>]
           ELSE [kind |-> "continue", value |-> "",
                 events |-> <<CallEvent(resp), QueryEvent(rl),
                              SleepEvent(Seconds(RateLimitSleep(rl.delta)))>>]
  ELSE IF resp.exc = "GithubException" /\ resp.status \in {403, 404}
    THEN [kind |-> "continue", value |-> "",
          events |-> <<CallEvent(resp), SleepEvent(Seconds(BackoffDelay(att)))>>]
  ELSE [kind |-> "return", value |-> "", events |-> <<CallEvent(resp)>>]

\* One pass through the body of "for attempt in range(max_retries)": the lookup
\* answers resp and, in the rate-limit handler, the reset query answers rl.
\* The pass returns a date, continues the loop, or lets an exception escape.
LoopBody(att, resp, rl) ==
  IF resp.exc = "none"
    THEN [kind |-> "return", value |-> strftime(resp.date),
          events |-> <<CallEvent(resp)>>]
  ELSE IF resp.exc = "RateLimitExceededException"
    THEN IF rl.raises
           THEN [kind |-> "raise", value |-> "",
                 events |-> <<CallEvent(resp), QueryEvent(rl)>>]
           ELSE [kind |-> "continue", value |-> "",
                 events |-> <<CallEvent(resp), QueryEvent(rl),
                              SleepEvent(Seconds(RateLimitSleep(rl.delta)))>>]
  ELSE IF resp.exc = "GithubException"
    THEN IF resp.status = 404
           THEN [kind |-> "return", value |-> "", events |-> <<CallEvent(resp)>>]
         ELSE IF resp.status = 403
           THEN [kind |-> "continue", value |-> "",
                 events |-> <<CallEvent(resp), SleepEvent(Seconds(BackoffDelay(att)))>>]
         ELSE [kind |-> "return", value |-> "", events |-> <<CallEvent(resp)>>]
  ELSE [kind |-> "return", value |-> "", events |-> <<CallEvent(resp)>>]

\* mutant: the loop makes one pass too many
LoopContinues_OneMore(att) == att + 1 <= max_retries

\* "continue" moves to the next value of range(max_retries); TRUE when there is one
LoopContinues(att) == att + 1 < max_retries

\* ------------------------------------------------------------ Project.run
None == [none |-> TRUE]

\* mutant: the registry rule is skipped for any URL that mentions github.com
UsesCranRule_NoGithub(url) == ContainsCran(url) /\ ~ContainsGithub(url)

\* if is_cran and not repo
UsesCranRule(url) == ContainsCran(url) /\ extract_repo(url) = <<>>

\* What run() makes of a URL (lines 86-99): the fetch it chooses and the
\* argument it passes to it.
Resolve(url) ==
  IF UsesCranRule(url)
    THEN [kind |-> "PackageRegistry", identifier |-> url]
  ELSE IF SkipsLookup(extract_repo(url))
    THEN [kind |-> "Unknown", identifier |-> extract_repo(url)]
  ELSE [kind |-> "GitRepo", identifier |-> extract_repo(url)]

\* self.regs = dict(...)
Regs(p, last_commit) ==
  [project     |-> p.match.text,
   section     |-> p.section,
   last_commit |-> last_commit,
   url         |-> p.match.url,
   description |-> p.match.description,
   github      |-> ContainsGithub(p.match.url),
   cran        |-> ContainsCran(p.match.url),
   repo        |-> extract_repo(p.match.url)]

\* ------------------------------------------------------------ heading stack
RECURSIVE Join(_, _)
\* sep.join(seq)
Join(seq, sep) ==
  IF seq = <<>> THEN ""
  ELSE IF Len(seq) = 1 THEN seq[1]
  ELSE seq[1] \o sep \o Join(Tail(seq), sep)

\* seq[1:]
Slice1(seq) == IF seq = <<>> THEN <<>> ELSE Tail(seq)

\* ' > '.join(m_titles[1:])
Section(titles) == Join(Slice1(titles), " > ")

\* for n in range(last - level + 1): m_titles.pop()
Pops(last, level) == last - level + 1

\* The heading branch of the parse loop. error: a pop() met the empty list.
HeadingStep(titles, last, level, text) ==
  IF level > last
    THEN [titles |-> Append(titles, text), last |-> level, error |-> FALSE]
  ELSE IF Pops(last, level) > Len(titles)
    THEN [titles |-> <<>>, last |-> last, error |-> TRUE]
  ELSE [titles |-> Append(SubSeq(titles, 1, Len(titles) - Pops(last, level)), text),
        last |-> level, error |-> FALSE]

\* ----------------------------------------------------------------- threads
\* Thread.start(): a thread can be started once; a second start raises RuntimeError
CanStart(state) == state = "initial"
\* line 125: the parse loop calls p.start() on the thread it has just created
StartedByParser == "started"
\* Thread.is_alive()
IsAlive(state) == state \in {"started", "fetch"}

Workers == 1..Len(projects)

\* ------------------------------------------------------------ initial states
InitWith(docs, apis) ==
  /\ README \in docs
  /\ api \in apis
  /\ pos = 0
  /\ m_titles = <<>>
  /\ last_head_level = 0
  /\ projects = <<>>
  /\ thread = <<>>
  /\ attempt = <<>>
  /\ regs = <<>>
  /\ log = <<>>
  /\ pc = "parse"
  /\ i = 0
  /\ k = 0
  /\ pauses = 0
  /\ csv = <<>>

PipelineUrls == {UrlGit, UrlCran, UrlOther}
PipelineDocs ==
  Docs(HeadingShapes \cup {TextLine} \cup ItemShapes(PipelineUrls), 0..MaxLines)
FetchDocs == Docs(ItemShapes(AllUrls), 0..MaxFetch)
\* a long list of items with no repository behind them; the first may have one
WaveDocs ==
  { d \in Docs(ItemShapes({UrlGit, UrlOther}), 0..MaxWave) :
      \A j \in 2..Len(d) : d[j].url = UrlOther }

Init      == InitWith(PipelineDocs, {"pipeline"})
InitFetch == InitWith(FetchDocs, {"full"})
InitWave  == InitWith(WaveDocs, {"healthy"})
ResolveUrls == AllUrls \cup {UrlGitDotGit, UrlHttpGit, UrlNoRepo}
InitResolve == InitWith(Docs(ItemShapes(ResolveUrls), 0..(MaxFetch + 1)), {"healthy"})
InitPair == InitWith(Docs(ItemShapes(PipelineUrls), 0..(MaxFetch + 1)), {"pipeline"})
InitReset == InitWith(Docs(ItemShapes({UrlGit}), 0..MaxFetch), {"reset"})

\* ------------------------------------------------------------- main thread
\* One iteration of "for line in f" (lines 121-137).
ParseLine ==
  /\ pc = "parse"
  /\ pos < Len(README)
  /\ pos' = pos + 1
  /\ LET line == README[pos + 1] IN
       IF line.kind = "item"
         THEN \* p = Project(m, section); p.start(); projects.append(p)
              /\ projects' = Append(projects,
                                    [match |-> line, section |-> Section(m_titles)])
              /\ thread' = Append(thread, StartedByParser)
              /\ attempt' = Append(attempt, 0)
              /\ regs' = Append(regs, None)
              /\ log' = Append(log, <<>>)
              /\ UNCHANGED <<m_titles, last_head_level, pc>>
       ELSE IF line.kind = "heading"
         THEN LET h == HeadingStep(m_titles, last_head_level, line.level, line.text) IN
                /\ m_titles' = h.titles
                /\ last_head_level' = h.last
                /\ pc' = IF h.error THEN "crashed" ELSE pc
                /\ UNCHANGED <<projects, thread, attempt, regs, log>>
       ELSE UNCHANGED <<m_titles, last_head_level, pc, projects, thread, attempt,
                        regs, log>>
  /\ UNCHANGED <<README, api, i, k, pauses, csv>>

\* The file is exhausted: line 139, then the head of the batch loop (line 143).
EndOfFile ==
  /\ pc = "parse"
  /\ pos = Len(README)
  /\ i' = 0
  /\ k' = 0
  /\ pc' = IF 0 < Len(projects) THEN "launch" ELSE "output"
  /\ UNCHANGED <<README, api, pos, m_titles, last_head_level, projects, thread,
                 attempt, regs, log, pauses, csv>>

\* range(0, n, b): the values the loop variable i takes
Offsets(n, b) == {off \in 0..(n - 1) : off % b = 0}

\* mutant: the slice is not cut at the end of the list
Slice_NoClamp(n, off, b) == (off + 1)..(off + b)

\* seq[off:off+b] of a list of n elements, as the indices of its members
Slice(n, off, b) == (off + 1)..Min(off + b, n)

\* batch = projects[i:i+batch_size], as the indices of its members
Batch(off) == Slice(Len(projects), off, batch_size)

\* One step of the body of the batch loop (lines 144-160): one p.start() of the
\* launch loop, the poll that finds the batch drained, or the inter-batch pause.
BatchLoop ==
  /\ pc \in {"launch", "wait", "pause"}
  /\ IF pc = "launch"
       THEN LET p == i + k + 1 IN
              IF CanStart(thread[p])
                THEN /\ thread' = [thread EXCEPT ![p] = "started"]
                     /\ k' = k + 1
                     /\ pc' = IF p + 1 \in Batch(i) THEN "launch" ELSE "wait"
                     /\ UNCHANGED <<i, pauses>>
                ELSE /\ pc' = "crashed"
                     /\ UNCHANGED <<thread, i, k, pauses>>
     ELSE IF pc = "wait"
       THEN /\ \A p \in Batch(i) : ~IsAlive(thread[p])
            /\ pc' = IF i + batch_size < Len(projects) THEN "pause" ELSE "output"
            /\ UNCHANGED <<thread, i, k, pauses>>
     ELSE /\ pauses' = pauses + 1
          /\ i' = i + batch_size
          /\ k' = 0
          /\ pc' = "launch"
          /\ UNCHANGED thread
  /\ UNCHANGED <<README, api, pos, m_titles, last_head_level, projects, attempt,
                 regs, log, csv>>

\* projects = [p.regs for p in projects]; DataFrame(projects).to_csv(...)
WriteOutput ==
  /\ pc = "output"
  /\ csv' = Append(csv, [p \in Workers |-> regs[p]])
  /\ pc' = "done"
  /\ UNCHANGED <<README, api, pos, m_titles, last_head_level, projects, thread,
                 attempt, regs, log, i, k, pauses>>

\* ---------------------------------------------------------------- workers
\* mutant: every worker writes its result to one shared slot
Finish_SharedSlot(w, last_commit, events) ==
  /\ regs' = [regs EXCEPT ![1] = Regs(projects[w], last_commit)]
  /\ log' = [log EXCEPT ![w] = log[w] \o events]
  /\ thread' = [thread EXCEPT ![w] = "done"]
  /\ UNCHANGED attempt

\* the worker returns from run() with last_commit assigned to regs
Finish(w, last_commit, events) ==
  /\ regs' = [regs EXCEPT ![w] = Regs(projects[w], last_commit)]
  /\ log' = [log EXCEPT ![w] = log[w] \o events]
  /\ thread' = [thread EXCEPT ![w] = "done"]
  /\ UNCHANGED attempt

\* Project.run up to the first lookup (lines 85-99, 34-42)
Run(w) ==
  /\ thread[w] = "started"
  /\ LET url  == projects[w].match.url
         repo == extract_repo(url)
         nap  == <<SleepEvent(100)>>
     IN  IF UsesCranRule(url)
           THEN Finish(w, get_cran_publication_date(url), nap)
         ELSE IF SkipsLookup(repo)
           THEN Finish(w, "", nap)
         ELSE /\ thread' = [thread EXCEPT ![w] = "fetch"]
              /\ attempt' = [attempt EXCEPT ![w] = 0]
              /\ log' = [log EXCEPT ![w] = log[w] \o nap]
              /\ UNCHANGED regs
  /\ UNCHANGED <<README, api, pos, m_titles, last_head_level, projects, pc, i, k,
                 pauses, csv>>

\* One iteration of get_last_commit's loop (lines 42-70) and, when the loop
\* ends or returns, the rest of run (lines 72-73, 100-109).
Attempt(w) ==
  /\ thread[w] = "fetch"
  /\ \E resp \in Api(api).responses, rl \in Api(api).resets :
       LET o == LoopBody(attempt[w], resp, rl) IN
         IF o.kind = "return"
           THEN Finish(w, o.value, o.events)
         ELSE IF o.kind = "raise"
           THEN /\ thread' = [thread EXCEPT ![w] = "died"]
                /\ log' = [log EXCEPT ![w] = log[w] \o o.events]
                /\ UNCHANGED <<attempt, regs>>
         ELSE IF LoopContinues(attempt[w])
           THEN /\ attempt' = [attempt EXCEPT ![w] = attempt[w] + 1]
                /\ log' = [log EXCEPT ![w] = log[w] \o o.events]
                /\ UNCHANGED <<thread, regs>>
         ELSE Finish(w, "", o.events)
  /\ UNCHANGED <<README, api, pos, m_titles, last_head_level, projects, pc, i, k,
                 pauses, csv>>

Worker == \E w \in Workers : Run(w) \/ Attempt(w)

Next == ParseLine \/ EndOfFile \/ BatchLoop \/ WriteOutput \/ Worker

Spec      == Init /\ [][Next]_vars
SpecFetch == InitFetch /\ [][Next]_vars
SpecWave  == InitWave /\ [][Next]_vars
SpecReset == InitReset /\ [][Next]_vars
SpecPair == InitPair /\ [][Next]_vars
SpecResolve == InitResolve /\ [][Next]_vars

\* ------------------------------------------------------------ observations
Terminated(w) == thread[w] \in {"done", "died"}
Alive == {w \in Workers : IsAlive(thread[w])}

\* the responses to the worker's repository lookups, in order
Responses(w) ==
  LET calls == SelectSeq(log[w], LAMBDA e : e.op = "get_repo")
  IN  [n \in 1..Len(calls) |-> calls[n].resp]
\* the answers to the worker's rate-limit queries, in order
Queries(w) ==
  LET qs == SelectSeq(log[w], LAMBDA e : e.op = "get_rate_limit")
  IN  [n \in 1..Len(qs) |-> qs[n].rl]
\* the sleeps inside get_last_commit (all but the 100 ms before the first lookup)
FetchSleeps(w) ==
  LET ss == SelectSeq(log[w], LAMBDA e : e.op = "sleep")
  IN  [n \in 1..(Len(ss) - 1) |-> ss[n + 1].ms]
ApiCalls(w) == Len(Responses(w)) + Len(Queries(w))
\* get_repo events among the first n events of the worker's log
CallsBefore(w, n) == Cardinality({j \in 1..(n - 1) : log[w][j].op = "get_repo"})

AllAre(seq, x) == \A n \in 1..Len(seq) : seq[n] = x
ItemsOf(doc) == SelectSeq(doc, LAMBDA line : line.kind = "item")
BatchOf(w) == (w - 1) \div batch_size

IsGitRepo(url)  == StrictMatch(url)
IsRegistry(url) == ~StrictMatch(url) /\ ContainsCran(url)
IsUnknown(url)  == ~StrictMatch(url) /\ ~ContainsCran(url)

\* ---------------------------------------------------------------- claims

\* C1: once the main thread has ended, site/projects.csv has been written once
\* with exactly one record per list item of the README, the record at position
\* j being the one worker j produced for item j.
C1_OneRecordPerEntry ==
  pc \in {"done", "crashed"} =>
    /\ Len(csv) = 1
    /\ Len(csv[1]) = Len(ItemsOf(README))
    /\ \A j \in 1..Len(csv[1]) :
         /\ csv[1][j] # None
         /\ csv[1][j].project = ItemsOf(README)[j].text
         /\ csv[1][j].url = ItemsOf(README)[j].url

\* C2: no error raised in the parse loop or in the batch loop's launch and wait
\* steps ends the main thread before the output is written.
C2_NoFatalError == pc # "crashed"

\* C3: at most batch_size worker threads are alive at any time, counted from
\* the first start() of each thread.
C3_AtMostBatchSizeAlive == Cardinality(Alive) <= batch_size

\* C4: a worker of a later batch has been started only if every worker of
\* every earlier batch has terminated.
C4_BatchesSequential ==
  \A a, b \in Workers :
    (BatchOf(a) < BatchOf(b) /\ thread[b] # "initial") => Terminated(a)

\* C5: a worker that has terminated has recorded a result, whatever failure it
\* met; no worker ends with regs still None.
C5_WorkerAlwaysRecords ==
  \A w \in Workers : Terminated(w) => regs[w] # None

C7_ForbiddenBackoff ==
  \A w \in Workers :
    LET r == Responses(w)
        cnt == Len(r)
    IN  /\ (cnt >= 1 /\ AllAre(r, Forbidden)) =>
             /\ cnt <= 3
             /\ FetchSleeps(w) = SubSeq(<<1000, 2000, 4000>>, 1, cnt)
             /\ cnt < 3 => thread[w] = "fetch"
             /\ cnt = 3 => (thread[w] = "done" /\ regs[w].last_commit = "")
        /\ \A n \in 1..Len(log[w]) :
             (log[w][n].op = "get_repo" /\ log[w][n].resp = Forbidden) =>
               /\ n < Len(log[w])
               /\ log[w][n + 1].op = "sleep"
               /\ log[w][n + 1].ms = 1000 * (2 ^ CallsBefore(w, n))

C7_Witness ==
  \E w \in Workers :
    /\ Responses(w) = <<Forbidden, Forbidden, Forbidden>>
    /\ FetchSleeps(w) = <<1000, 2000, 4000>>
    /\ thread[w] = "done"
    /\ regs[w].last_commit = ""

\* C8: a lookup answered NotFound, or by any error that is neither a rate
\* limit nor Forbidden, is the worker's last event: no sleep and no lookup
\* follows it, and the worker has returned the empty date.
IsTerminalError(resp) ==
  /\ resp.exc # "none"
  /\ resp # RateLimited
  /\ resp # Forbidden
C8_TerminalErrorNoRetry ==
  \A w \in Workers :
    \A n \in 1..Len(log[w]) :
      (log[w][n].op = "get_repo" /\ IsTerminalError(log[w][n].resp)) =>
        /\ n = Len(log[w])
        /\ thread[w] = "done"
        /\ regs[w].last_commit = ""

C8_Witness ==
  \E w \in Workers :
    /\ Responses(w) = <<NotFound>>
    /\ ApiCalls(w) = 1
    /\ FetchSleeps(w) = <<>>
    /\ thread[w] = "done"
    /\ regs[w].last_commit = ""

\* C9: a worker whose URL is neither a strict repository URL nor a registry
\* URL makes no API call at any time and ends with the empty date.
C9_UnknownNoCalls ==
  \A w \in Workers :
    IsUnknown(projects[w].match.url) =>
      /\ ApiCalls(w) = 0
      /\ thread[w] \in {"started", "done"}
      /\ thread[w] = "done" => regs[w].last_commit = ""

C9_Witness ==
  \E w \in Workers :
    /\ projects[w].match.url = UrlGitTree
    /\ thread[w] = "done"
    /\ regs[w].last_commit = ""
    /\ ApiCalls(w) = 0

\* C10: a worker whose URL contains the registry host and is no strict
\* repository URL makes no API call at any time and ends with '1999-01-01'.
C10_RegistrySentinel ==
  \A w \in Workers :
    IsRegistry(projects[w].match.url) =>
      /\ ApiCalls(w) = 0
      /\ thread[w] \in {"started", "done"}
      /\ thread[w] = "done" => regs[w].last_commit = "1999-01-01"

C10_Witness ==
  \E w \in Workers :
    /\ projects[w].match.url = UrlCran
    /\ thread[w] = "done"
    /\ regs[w].last_commit = "1999-01-01"
    /\ ApiCalls(w) = 0

\* C11 as claimed: after a rate-limit response whose reset is delta seconds
\* away the worker sleeps max(delta, 60) + 10 seconds.
C11_SleepFloorThenBuffer ==
  \A w \in Workers :
    \A n \in 1..Len(log[w]) :
      (log[w][n].op = "get_rate_limit" /\ ~log[w][n].rl.raises) =>
        /\ n < Len(log[w])
        /\ log[w][n + 1].op = "sleep"
        /\ log[w][n + 1].ms =
             1000 * ((IF log[w][n].rl.delta >= 60 THEN log[w][n].rl.delta ELSE 60) + 10)

\* C11 amended: the worker sleeps max(delta + 10, 60) seconds: the buffer is
\* added before the floor, so the sleep is 60 s when the reset is less than
\* 50 s away and delta + 10 s otherwise.
C11_SleepBufferThenFloor ==
  \A w \in Workers :
    \A n \in 1..Len(log[w]) :
      (log[w][n].op = "get_rate_limit" /\ ~log[w][n].rl.raises) =>
        /\ n < Len(log[w])
        /\ log[w][n + 1].op = "sleep"
        /\ log[w][n + 1].ms =
             1000 * (IF log[w][n].rl.delta < 50 THEN 60 ELSE log[w][n].rl.delta + 10)

C11_Witness ==
  \E w \in Workers :
    \E n \in 1..(Len(log[w]) - 1) :
      /\ log[w][n] = QueryEvent(ResetIn(55))
      /\ log[w][n + 1] = SleepEvent(65000)

GitRepoOf(ident) == [kind |-> "GitRepo", identifier |-> ident]
ExpectedResolve(url) ==
  IF url = UrlGit THEN GitRepoOf(<<"acme", "/", "widget">>)
  ELSE IF url = UrlGitDotGit THEN GitRepoOf(<<"acme", "/", "widget", ".git">>)
  ELSE IF url = UrlGitCran THEN GitRepoOf(<<"acme", "/", CranHost>>)
  ELSE IF url \in {UrlCran, UrlCranGit}
    THEN [kind |-> "PackageRegistry", identifier |-> url]
  ELSE [kind |-> "Unknown", identifier |-> <<>>]

\* the known suffix the claim has trimmed from a repo name
TrimSuffix(ident) ==
  IF ident # <<>> /\ ident[Len(ident)] = ".git"
    THEN SubSeq(ident, 1, Len(ident) - 1)
    ELSE ident

\* C13 as claimed: every URL resolves, by precedence, to GitRepo with the
\* matched "owner/repo" trimmed of a known suffix, else to PackageRegistry with
\* the URL unchanged, else to Unknown with ''.
C13_ResolveTrimmed ==
  \A w \in Workers :
    LET url == projects[w].match.url IN
      /\ Resolve(url).kind = ExpectedResolve(url).kind
      /\ Resolve(url).identifier = TrimSuffix(ExpectedResolve(url).identifier)

\* C13 amended: the same classification, the GitRepo identifier being the
\* matched "owner/repo" exactly as it stands in the URL (nothing is trimmed);
\* the record the worker writes carries that repo, and only a GitRepo URL
\* leads to a lookup.
C13_ResolveUntrimmed ==
  \A w \in Workers :
    LET url == projects[w].match.url IN
      /\ Resolve(url) = ExpectedResolve(url)
      /\ thread[w] = "fetch" => Resolve(url).kind = "GitRepo"
      /\ thread[w] = "done" =>
           /\ regs[w].repo =
                IF Resolve(url).kind = "GitRepo" THEN Resolve(url).identifier ELSE <<>>
           /\ (ApiCalls(w) > 0) = (Resolve(url).kind = "GitRepo")

C13_Witness ==
  \E w \in Workers :
    /\ projects[w].match.url = UrlGitDotGit
    /\ Resolve(UrlGitDotGit) = GitRepoOf(<<"acme", "/", "widget", ".git">>)
    /\ thread[w] = "done"
    /\ regs[w].repo = <<"acme", "/", "widget", ".git">>

\* C14: site/projects.csv is written exactly once per run: never twice, only
\* when every worker has terminated with its result recorded, and a main
\* thread that has ended has written it.
C14_WrittenOnceAfterDrain ==
  /\ Len(csv) <= 1
  /\ Len(csv) = 1 => \A w \in Workers : Terminated(w) /\ regs[w] # None
  /\ pc \in {"done", "crashed"} => Len(csv) = 1

C16_PauseBetweenBatches ==
  /\ pc = "pause" =>
       /\ \A w \in Batch(i) : Terminated(w)
       /\ i + batch_size \in Offsets(Len(projects), batch_size)
  /\ pc \in {"done", "crashed"} =>
       pauses = Max(Cardinality(Offsets(Len(projects), batch_size)) - 1, 0)

\* the headings enclosing the position after the first n lines of doc: the
\* latest heading at each depth, depths strictly increasing down to the most
\* recent heading
RECURSIVE EnclosingPath(_, _)
EnclosingPath(doc, n) ==
  IF n = 0 THEN <<>>
  ELSE IF doc[n].kind # "heading" THEN EnclosingPath(doc, n - 1)
  ELSE Append(SelectSeq(EnclosingPath(doc, n - 1), LAMBDA h : h.level < doc[n].level),
              [level |-> doc[n].level, text |-> doc[n].text])
PathTitles(doc, n) ==
  [j \in 1..Len(EnclosingPath(doc, n)) |-> EnclosingPath(doc, n)[j].text]
\* the line of README the project w was made from
LineOf(w) ==
  CHOOSE j \in 1..Len(README) :
    README[j].kind = "item" /\ README[j].text = projects[w].match.text

\* C17: while the parse loop has not failed, the heading stack holds the path
\* of headings enclosing the current position, and the section of every entry
\* is the path enclosing its line, without the topmost heading, joined by " > ".
C17_HeadingPath ==
  /\ pc # "crashed" => m_titles = PathTitles(README, pos)
  /\ \A w \in Workers :
       projects[w].section = Join(Slice1(PathTitles(README, LineOf(w))), " > ")

\* C18: a worker is started only by the batch loop, as part of the batch the
\* loop is in, and the batch loop never calls start() on a started thread.
C18_StartedOnceByBatchLoop ==
  /\ pc = "parse" => \A w \in Workers : thread[w] = "initial"
  /\ \A w \in Workers : thread[w] # "initial" => w <= i + k
  /\ pc = "launch" => CanStart(thread[i + k + 1])

C20_NoPopFromEmpty ==
  (pc = "parse" /\ pos < Len(README)) =>
    LET line == README[pos + 1] IN
      (line.kind = "heading" /\ line.level <= last_head_level) =>
        Pops(last_head_level, line.level) <= Len(m_titles)

====
